---- MODULE Spec2Model ----
(***************************************************************************)
(* Frame orchestrator of bg-engine (lve::LveRenderer, src/lve_renderer.cpp) *)
(* together with the collaborators it drives: the window surface, the      *)
(* presentation chain and the GPU queue.                                   *)
(*                                                                         *)
(* A handler runs as one step, except recreateSwapChain, which blocks in   *)
(* glfwWaitEvents and vkDeviceWaitIdle: there the handler is suspended (pc)*)
(* while window events and GPU completions take place.                     *)
(* A failed assert aborts the process; a std::runtime_error is caught      *)
(* nowhere in the sources, so it ends the run as well.  Both leave the     *)
(* fields as they were at that moment.                                     *)
(***************************************************************************)
EXTENDS Integers, Sequences, FiniteSets, TLC

\* ---- bounds ----
MAX_FRAMES_IN_FLIGHT == 2      \* F: number of frame slots
MaxDim == 1                    \* surface width and height range over 0..MaxDim
NumFormats == 2                \* surface formats a chain can be built with
MaxFrames == 3                 \* frames the caller completes before it stops
IdWidth == 2                   \* bits of id_t (unsigned int, 32 in the build),
                               \* scaled down so that the counter's wrap is in reach
MaxObjects == 5                \* createGameObject calls in a run
MaxVertices == 2               \* vertex counts of a geometry range over 1..MaxVertices

F == MAX_FRAMES_IN_FLIGHT
Slots == 0 .. (F - 1)
Extents == (0 .. MaxDim) \X (0 .. MaxDim)
Formats == 1 .. NumFormats
\* VkCommandBuffer handles: i+1 is the buffer of slot i, F+1 a buffer that is
\* not this renderer's
Handles == 1 .. (F + 1)
VK_NULL_HANDLE == 0
AcquireResults == {"VK_SUCCESS", "VK_SUBOPTIMAL_KHR", "VK_ERROR_OUT_OF_DATE_KHR", "VK_ERROR_OTHER"}
SubmitResults == {"VK_SUCCESS", "VK_SUBOPTIMAL_KHR", "VK_ERROR_OUT_OF_DATE_KHR", "VK_ERROR_OTHER"}

VARIABLES
  pc,                 \* where the program is: "start", "idle" (between calls),
                      \* "rc_loop"/"rc_idle" (inside recreateSwapChain),
                      \* "aborted", "thrown"
  rcCaller,           \* who called recreateSwapChain: "ctor", "beginFrame", "endFrame"
  rcExtent,           \* recreateSwapChain's local `extent`
  rcResult,           \* endFrame's local `result` while it is inside recreateSwapChain
  isFrameStarted,     \* LveRenderer::isFrameStarted
  currentFrameIndex,  \* LveRenderer::currentFrameIndex
  lveSwapChain,       \* LveRenderer::lveSwapChain (NullChain = nullptr)
  commandBuffers,     \* LveRenderer::commandBuffers, a sequence of handles
  windowExtent,       \* the surface's current extent
  framebufferResized, \* the surface's resize flag
  inFlightFences,     \* per slot: completion fence is signalled
  gpuPending,         \* per slot: submissions the GPU has not completed
  imagesHeld,         \* images acquired and not yet submitted
  renderPass,         \* render-pass commands recorded since recording began:
                      \* "none", "open" (last was begin), "closed" (last was end)
  recording,          \* per slot: command buffer is in the recording state
  \* ---- history of the calls, for stating the properties ----
  lastCall,           \* [op, cb] of the latest call
  lastResult,         \* "none", "running" (inside recreateSwapChain), "ok",
                      \* "null" (beginFrame returned nullptr), "abort" (assert),
                      \* "throw_..." (the runtime_error raised)
  lastStatus,         \* status acquire/submit returned in the latest call, or "none"
  resizedAtSubmit,    \* resize flag as endFrame read it in the latest call
  builtInCall,        \* chains constructed during the latest call
  waitedInCall,       \* the zero-extent loop ran during the latest call
  frameOpen,          \* latest beginFrame returned a buffer and no endFrame call since
  completed,          \* number of frames completed (endFrame returned)
  returnedIn,         \* per handle: the frames (by number) whose beginFrame returned it
  \* ---- the scene ----
  currentId,          \* the static counter of LveGameObject::createGameObject
  created,            \* the ids createGameObject has returned, in call order
  gameObjects,        \* FirstApp::gameObjects, a sequence of [id, model]
  drawCalls           \* draw calls of the latest render dispatch, in issue order

rendererVars == <<isFrameStarted, currentFrameIndex, lveSwapChain, commandBuffers>>
windowVars == <<windowExtent, framebufferResized>>
gpuVars == <<inFlightFences, gpuPending, imagesHeld, renderPass, recording>>
rcVars == <<rcCaller, rcExtent, rcResult>>
histVars == <<lastCall, lastResult, lastStatus, resizedAtSubmit, builtInCall,
              waitedInCall,
              frameOpen, completed, returnedIn>>
sceneVars == <<currentId, created, gameObjects, drawCalls>>
vars == <<pc, rcVars, rendererVars, windowVars, gpuVars, histVars, sceneVars>>

NullChain == [extent |-> <<0, 0>>, format |-> 0]
ThrowResults == {"throw_format", "throw_alloc", "throw_acquire", "throw_begin",
                 "throw_record", "throw_submit"}
NoCall == [op |-> "none", cb |-> VK_NULL_HANDLE]

\* variant: the loop test with && in place of ||
ZeroExtentBoth(e) == 0 = e[1] /\ 0 = e[2]

ZeroExtent(e) == 0 = e[1] \/ 0 = e[2]

\* LveRenderer::getCurentCommandBuffer
getCurentCommandBuffer == commandBuffers[currentFrameIndex + 1]

Init ==
  /\ pc = "start"
  /\ rcCaller = "none"
  /\ rcExtent = <<0, 0>>
  /\ rcResult = "none"
  /\ isFrameStarted = FALSE
  /\ currentFrameIndex = 0
  /\ lveSwapChain = NullChain
  /\ commandBuffers = <<>>
  /\ windowExtent \in Extents
  /\ framebufferResized = FALSE
  /\ inFlightFences = [s \in Slots |-> TRUE]
  /\ gpuPending = [s \in Slots |-> 0]
  /\ imagesHeld = 0
  /\ renderPass = "none"
  /\ recording = [s \in Slots |-> FALSE]
  /\ lastCall = NoCall
  /\ lastResult = "none"
  /\ lastStatus = "none"
  /\ resizedAtSubmit = FALSE
  /\ builtInCall = 0
  /\ waitedInCall = FALSE
  /\ frameOpen = FALSE
  /\ completed = 0
  /\ returnedIn = [h \in Handles |-> {}]
  /\ currentId = 0
  /\ created = <<>>
  /\ gameObjects = <<>>
  /\ drawCalls = <<>>

\* ---------------------------------------------------------------------------
\* Collaborators: window surface, presentation chain, GPU queue
\* ---------------------------------------------------------------------------

\* a framebuffer-size event: the surface gets a new extent and raises its flag
ResizeEvent(e) ==
  /\ windowExtent' = e
  /\ framebufferResized' = TRUE

\* glfwWaitEvents: returns after at least one event, a resize or any other
glfwWaitEvents ==
  \/ \E e \in Extents \ {windowExtent} : ResizeEvent(e)
  \/ UNCHANGED windowVars

\* LveSwapChain::acquireNextImage waits on the current slot's completion fence
acquireNextImageReady == inFlightFences[currentFrameIndex]

\* an image is handed out unless the status is an error
acquireNextImage(result) ==
  imagesHeld' = IF result \in {"VK_SUCCESS", "VK_SUBOPTIMAL_KHR"}
                THEN imagesHeld + 1 ELSE imagesHeld

\* LveSwapChain::submitCommandBuffers: the slot's fence is reset and will be
\* signalled when the GPU completes the work; the image goes to presentation
submitCommandBuffers ==
  /\ gpuPending' = [gpuPending EXCEPT ![currentFrameIndex] = @ + 1]
  /\ inFlightFences' = [inFlightFences EXCEPT ![currentFrameIndex] = FALSE]
  /\ imagesHeld' = imagesHeld - 1

\* LveSwapChain::compareSwapFormats
compareSwapFormats(old, new) == old.format = new.format

\* a new LveSwapChain: built for the extent given, with fresh (signalled) fences
NewSwapChain(extent, fmt) == [extent |-> extent, format |-> fmt]

\* the GPU completes one submission of slot s and signals its fence
GpuComplete(s) ==
  /\ pc \notin {"aborted", "thrown"}
  /\ gpuPending[s] > 0
  /\ gpuPending' = [gpuPending EXCEPT ![s] = @ - 1]
  /\ inFlightFences' = [inFlightFences EXCEPT ![s] = TRUE]
  /\ UNCHANGED <<pc, rcVars, rendererVars, windowVars, imagesHeld, renderPass,
                 recording, histVars>>
  /\ UNCHANGED sceneVars

\* FirstApp::run polls the window events between calls
glfwPollEvents ==
  /\ pc = "idle"
  /\ \E e \in Extents \ {windowExtent} : ResizeEvent(e)
  /\ UNCHANGED <<pc, rcVars, rendererVars, gpuVars, histVars>>
  /\ UNCHANGED sceneVars

\* ---------------------------------------------------------------------------
\* LveRenderer::recreateSwapChain
\* ---------------------------------------------------------------------------

\* entry: read the extent once and test it
recreateSwapChain(caller, result) ==
  /\ rcCaller' = caller
  /\ rcResult' = result
  /\ rcExtent' = windowExtent
  /\ pc' = IF ZeroExtent(windowExtent) THEN "rc_loop" ELSE "rc_idle"

\* one turn of the loop: read the extent, wait for events, test what was read
recreateSwapChainWait ==
  /\ pc = "rc_loop"
  /\ rcExtent' = windowExtent
  /\ glfwWaitEvents
  /\ pc' = IF ZeroExtent(windowExtent) THEN "rc_loop" ELSE "rc_idle"
  /\ waitedInCall' = TRUE
  /\ UNCHANGED <<rcCaller, rcResult, rendererVars, gpuVars, lastCall, lastResult,
                 lastStatus, resizedAtSubmit, builtInCall, frameOpen, completed,
                 returnedIn>>
  /\ UNCHANGED sceneVars

\* recreateSwapChain returns (or throws): its locals are gone
recreateSwapChainReturn ==
  /\ rcCaller' = "none"
  /\ rcExtent' = <<0, 0>>
  /\ rcResult' = "none"

\* variant: the rebuild does not wait for the device
vkDeviceWaitIdleSkipped == TRUE

\* variant: only the current slot's work is waited for, not the whole device
vkDeviceWaitIdleCurrentSlot == gpuPending[currentFrameIndex] = 0

\* vkDeviceWaitIdle returns once no submission is outstanding
vkDeviceWaitIdle == \A s \in Slots : gpuPending[s] = 0

\* the chain is replaced by one built for the local extent
BuildSwapChain(fmt) ==
  /\ lveSwapChain' = NewSwapChain(rcExtent, fmt)
  /\ inFlightFences' = [s \in Slots |-> TRUE]
  /\ builtInCall' = builtInCall + 1

\* variant: the new chain is compared with itself, not with its predecessor
FormatsChangedSelf(fmt) ==
  /\ lveSwapChain # NullChain
  /\ ~compareSwapFormats(NewSwapChain(rcExtent, fmt), NewSwapChain(rcExtent, fmt))

\* the check after construction: only when there was a predecessor
FormatsChanged(fmt) ==
  /\ lveSwapChain # NullChain
  /\ ~compareSwapFormats(lveSwapChain, NewSwapChain(rcExtent, fmt))

\* "Swap chain Image or depth format has changed"
recreateSwapChainThrows ==
  /\ pc = "rc_idle"
  /\ vkDeviceWaitIdle
  /\ \E fmt \in Formats :
       /\ FormatsChanged(fmt)
       /\ BuildSwapChain(fmt)
  /\ pc' = "thrown"
  /\ lastResult' = "throw_format"
  /\ recreateSwapChainReturn
  /\ UNCHANGED <<isFrameStarted, currentFrameIndex, commandBuffers,
                 windowVars, gpuPending, imagesHeld, renderPass, recording,
                 lastCall, lastStatus, resizedAtSubmit, waitedInCall, frameOpen, completed,
                 returnedIn>>
  /\ UNCHANGED sceneVars

\* ---------------------------------------------------------------------------
\* LveRenderer::LveRenderer
\* ---------------------------------------------------------------------------

\* variant: one buffer more than there are frame slots is allocated
createCommandBuffersOneMore == commandBuffers' = [i \in 1 .. (F + 1) |-> i]

\* LveRenderer::createCommandBuffers: one handle per slot
createCommandBuffers == commandBuffers' = [i \in 1 .. F |-> i]

Construct ==
  /\ pc = "start"
  /\ recreateSwapChain("ctor", "none")
  /\ lastCall' = [op |-> "ctor", cb |-> VK_NULL_HANDLE]
  /\ lastResult' = "running"
  /\ UNCHANGED <<rendererVars, windowVars, gpuVars, lastStatus, resizedAtSubmit,
                 builtInCall, waitedInCall, frameOpen, completed, returnedIn>>
  /\ UNCHANGED sceneVars

ConstructFinish ==
  /\ pc = "rc_idle"
  /\ rcCaller = "ctor"
  /\ vkDeviceWaitIdle
  /\ \E fmt \in Formats :
       /\ ~FormatsChanged(fmt)
       /\ BuildSwapChain(fmt)
  /\ \E allocOk \in BOOLEAN :
       IF allocOk
       THEN /\ createCommandBuffers
            /\ pc' = "idle"
            /\ lastResult' = "ok"
       ELSE /\ pc' = "thrown"
            /\ lastResult' = "throw_alloc"
            /\ UNCHANGED commandBuffers
  /\ recreateSwapChainReturn
  /\ UNCHANGED <<isFrameStarted, currentFrameIndex, windowVars,
                 gpuPending, imagesHeld, renderPass, recording, lastCall,
                 lastStatus, resizedAtSubmit, waitedInCall, frameOpen, completed, returnedIn>>
  /\ UNCHANGED sceneVars

\* ---------------------------------------------------------------------------
\* LveRenderer::beginFrame
\* ---------------------------------------------------------------------------

\* variant: the assert is not there (or compiled out)
beginFrameAssertOff == TRUE

\* assert(!isFrameStarted && "cannot call beginFrame while already in progress")
beginFrameAssert == ~isFrameStarted

\* variant: only VK_SUCCESS lets the frame start
acquireFailedUnlessSuccess(result) == result # "VK_SUCCESS"

\* the test before "failed to acquire swap chain image!"
acquireFailed(result) == result # "VK_SUCCESS" /\ result # "VK_SUBOPTIMAL_KHR"

beginFrame ==
  /\ pc = "idle"
  /\ completed < MaxFrames
  /\ builtInCall' = 0
  /\ waitedInCall' = FALSE
  /\ resizedAtSubmit' = FALSE
  /\ \/ \* assert(!isFrameStarted)
        /\ ~beginFrameAssert
        /\ pc' = "aborted"
        /\ lastCall' = [op |-> "beginFrame", cb |-> VK_NULL_HANDLE]
        /\ lastResult' = "abort"
        /\ lastStatus' = "none"
        /\ frameOpen' = FALSE
        /\ UNCHANGED <<rcVars, rendererVars, windowVars, gpuVars, completed,
                       returnedIn>>
     \/ /\ beginFrameAssert
        /\ acquireNextImageReady
        /\ \E result \in AcquireResults :
             /\ acquireNextImage(result)
             /\ lastStatus' = result
             /\ \/ \* out of date: rebuild, then return nullptr
                   /\ result = "VK_ERROR_OUT_OF_DATE_KHR"
                   /\ recreateSwapChain("beginFrame", "none")
                   /\ lastCall' = [op |-> "beginFrame", cb |-> VK_NULL_HANDLE]
                   /\ lastResult' = "running"
                   /\ frameOpen' = FALSE
                   /\ UNCHANGED <<isFrameStarted, renderPass, recording,
                                  returnedIn>>
                \/ \* "failed to acquire swap chain image!"
                   /\ result # "VK_ERROR_OUT_OF_DATE_KHR"
                   /\ acquireFailed(result)
                   /\ pc' = "thrown"
                   /\ lastCall' = [op |-> "beginFrame", cb |-> VK_NULL_HANDLE]
                   /\ lastResult' = "throw_acquire"
                   /\ frameOpen' = FALSE
                   /\ UNCHANGED <<rcVars, isFrameStarted, renderPass, recording,
                                  returnedIn>>
                \/ /\ result # "VK_ERROR_OUT_OF_DATE_KHR"
                   /\ ~acquireFailed(result)
                   /\ isFrameStarted' = TRUE
                   /\ \E beginOk \in BOOLEAN :
                        IF beginOk
                        THEN \* vkBeginCommandBuffer: the buffer starts recording
                             /\ recording' = [recording EXCEPT ![currentFrameIndex] = TRUE]
                             /\ renderPass' = "none"
                             /\ pc' = "idle"
                             /\ lastCall' = [op |-> "beginFrame",
                                             cb |-> getCurentCommandBuffer]
                             /\ lastResult' = "ok"
                             /\ frameOpen' = TRUE
                             /\ returnedIn' = [returnedIn EXCEPT
                                   ![getCurentCommandBuffer] = @ \cup {completed}]
                        ELSE \* "failed to begin recording command buffer!"
                             /\ pc' = "thrown"
                             /\ lastCall' = [op |-> "beginFrame", cb |-> VK_NULL_HANDLE]
                             /\ lastResult' = "throw_begin"
                             /\ frameOpen' = FALSE
                             /\ UNCHANGED <<renderPass, recording, returnedIn>>
                   /\ UNCHANGED rcVars
        /\ UNCHANGED <<currentFrameIndex, lveSwapChain, commandBuffers,
                       windowVars, inFlightFences, gpuPending, completed>>
  /\ UNCHANGED sceneVars

\* variant: the `return nullptr` after the rebuild is missing, the frame starts
beginFrameFinishFallsThrough ==
  /\ pc = "rc_idle"
  /\ rcCaller = "beginFrame"
  /\ vkDeviceWaitIdle
  /\ \E fmt \in Formats :
       /\ ~FormatsChanged(fmt)
       /\ BuildSwapChain(fmt)
  /\ isFrameStarted' = TRUE
  /\ recording' = [recording EXCEPT ![currentFrameIndex] = TRUE]
  /\ renderPass' = "none"
  /\ pc' = "idle"
  /\ lastResult' = "ok"
  /\ lastCall' = [op |-> "beginFrame", cb |-> getCurentCommandBuffer]
  /\ frameOpen' = TRUE
  /\ returnedIn' = [returnedIn EXCEPT ![getCurentCommandBuffer] = @ \cup {completed}]
  /\ recreateSwapChainReturn
  /\ UNCHANGED <<currentFrameIndex, commandBuffers, windowVars, gpuPending,
                 imagesHeld, lastStatus, resizedAtSubmit, waitedInCall, completed>>
  /\ UNCHANGED sceneVars

\* recreateSwapChain has returned into beginFrame: return nullptr
beginFrameFinish ==
  /\ pc = "rc_idle"
  /\ rcCaller = "beginFrame"
  /\ vkDeviceWaitIdle
  /\ \E fmt \in Formats :
       /\ ~FormatsChanged(fmt)
       /\ BuildSwapChain(fmt)
  /\ pc' = "idle"
  /\ lastResult' = "null"
  /\ recreateSwapChainReturn
  /\ UNCHANGED <<isFrameStarted, currentFrameIndex, commandBuffers,
                 windowVars, gpuPending, imagesHeld, renderPass, recording,
                 lastCall, lastStatus, resizedAtSubmit, waitedInCall, frameOpen, completed,
                 returnedIn>>
  /\ UNCHANGED sceneVars

\* ---------------------------------------------------------------------------
\* LveRenderer::endFrame
\* ---------------------------------------------------------------------------

\* variant: isFrameStarted is not cleared at the end of the frame
endFrameTailKeepsFrame(result) ==
  IF result # "VK_SUCCESS"
  THEN /\ pc' = "thrown"
       /\ lastResult' = "throw_submit"
       /\ UNCHANGED <<isFrameStarted, currentFrameIndex, completed>>
  ELSE /\ UNCHANGED isFrameStarted
       /\ currentFrameIndex' = (currentFrameIndex + 1) % MAX_FRAMES_IN_FLIGHT
       /\ completed' = completed + 1
       /\ pc' = "idle"
       /\ lastResult' = "ok"

\* variant: the slot index restarts at 0 when the frame ended with a rebuild
endFrameTailResetsIndex(result) ==
  IF result # "VK_SUCCESS"
  THEN /\ pc' = "thrown"
       /\ lastResult' = "throw_submit"
       /\ UNCHANGED <<isFrameStarted, currentFrameIndex, completed>>
  ELSE /\ isFrameStarted' = FALSE
       /\ currentFrameIndex' = IF rcCaller = "endFrame" THEN 0
                               ELSE (currentFrameIndex + 1) % MAX_FRAMES_IN_FLIGHT
       /\ completed' = completed + 1
       /\ pc' = "idle"
       /\ lastResult' = "ok"

\* the end of endFrame, after the rebuild decision (result is endFrame's local)
endFrameTail(result) ==
  IF result # "VK_SUCCESS"
  THEN \* "failed to submit command buffers!"
       /\ pc' = "thrown"
       /\ lastResult' = "throw_submit"
       /\ UNCHANGED <<isFrameStarted, currentFrameIndex, completed>>
  ELSE /\ isFrameStarted' = FALSE
       /\ currentFrameIndex' = (currentFrameIndex + 1) % MAX_FRAMES_IN_FLIGHT
       /\ completed' = completed + 1
       /\ pc' = "idle"
       /\ lastResult' = "ok"

\* variant: the resize flag is not part of the rebuild condition
needsRebuildStatusOnly(result) ==
  \/ result = "VK_ERROR_OUT_OF_DATE_KHR"
  \/ result = "VK_SUBOPTIMAL_KHR"

\* variant: the resize flag counts only together with a rebuild status
needsRebuildConflated(result) ==
  /\ result \in {"VK_ERROR_OUT_OF_DATE_KHR", "VK_SUBOPTIMAL_KHR"}
  /\ framebufferResized

\* the rebuild condition of endFrame
needsRebuild(result) ==
  \/ result = "VK_ERROR_OUT_OF_DATE_KHR"
  \/ result = "VK_SUBOPTIMAL_KHR"
  \/ framebufferResized

endFrame ==
  /\ pc = "idle"
  /\ builtInCall' = 0
  /\ waitedInCall' = FALSE
  /\ lastCall' = [op |-> "endFrame", cb |-> VK_NULL_HANDLE]
  /\ frameOpen' = FALSE
  /\ \/ \* assert(isFrameStarted)
        /\ ~isFrameStarted
        /\ pc' = "aborted"
        /\ lastResult' = "abort"
        /\ lastStatus' = "none"
        /\ resizedAtSubmit' = FALSE
        /\ UNCHANGED <<rcVars, isFrameStarted, currentFrameIndex, windowVars,
                       gpuVars, completed>>
     \/ /\ isFrameStarted
        /\ \E endOk \in BOOLEAN :
             IF ~endOk
             THEN \* "failed to record command buffer!"
                  /\ pc' = "thrown"
                  /\ lastResult' = "throw_record"
                  /\ lastStatus' = "none"
                  /\ resizedAtSubmit' = FALSE
                  /\ UNCHANGED <<rcVars, isFrameStarted, currentFrameIndex,
                                 windowVars, gpuVars, completed>>
             ELSE \E result \in SubmitResults :
                  /\ recording' = [recording EXCEPT ![currentFrameIndex] = FALSE]
                  /\ submitCommandBuffers
                  /\ lastStatus' = result
                  /\ resizedAtSubmit' = framebufferResized
                  /\ UNCHANGED <<renderPass, windowExtent>>
                  /\ IF needsRebuild(result)
                     THEN /\ framebufferResized' = FALSE
                          /\ recreateSwapChain("endFrame", result)
                          /\ lastResult' = "running"
                          /\ UNCHANGED <<isFrameStarted, currentFrameIndex,
                                         completed>>
                     ELSE /\ endFrameTail(result)
                          /\ UNCHANGED <<rcVars, framebufferResized>>
  /\ UNCHANGED <<lveSwapChain, commandBuffers, returnedIn>>
  /\ UNCHANGED sceneVars

\* recreateSwapChain has returned into endFrame
endFrameFinish ==
  /\ pc = "rc_idle"
  /\ rcCaller = "endFrame"
  /\ vkDeviceWaitIdle
  /\ \E fmt \in Formats :
       /\ ~FormatsChanged(fmt)
       /\ BuildSwapChain(fmt)
  /\ endFrameTail(rcResult)
  /\ recreateSwapChainReturn
  /\ UNCHANGED <<commandBuffers, windowVars, gpuPending, imagesHeld,
                 renderPass, recording, lastCall, lastStatus, resizedAtSubmit, waitedInCall,
                 frameOpen, returnedIn>>
  /\ UNCHANGED sceneVars

\* ---------------------------------------------------------------------------
\* LveRenderer::beginSwapChainRenderPass / endSwapChainRenderPass
\* ---------------------------------------------------------------------------

\* variant: the command buffer is not compared
renderPassAssertsFrameOnly(commandBuffer) == isFrameStarted

\* the two asserts both handlers start with
renderPassAsserts(commandBuffer) ==
  /\ isFrameStarted
  /\ commandBuffer = getCurentCommandBuffer

beginSwapChainRenderPass(commandBuffer) ==
  /\ pc = "idle"
  /\ lastCall' = [op |-> "beginSwapChainRenderPass", cb |-> commandBuffer]
  /\ lastStatus' = "none"
  /\ resizedAtSubmit' = FALSE
  /\ builtInCall' = 0
  /\ waitedInCall' = FALSE
  /\ IF renderPassAsserts(commandBuffer)
     THEN \* vkCmdBeginRenderPass
          /\ renderPass' = "open"
          /\ pc' = "idle"
          /\ lastResult' = "ok"
     ELSE /\ pc' = "aborted"
          /\ lastResult' = "abort"
          /\ UNCHANGED renderPass
  /\ UNCHANGED <<rcVars, rendererVars, windowVars, inFlightFences, gpuPending,
                 imagesHeld, recording, frameOpen, completed, returnedIn>>
  /\ UNCHANGED sceneVars

endSwapChainRenderPass(commandBuffer) ==
  /\ pc = "idle"
  /\ lastCall' = [op |-> "endSwapChainRenderPass", cb |-> commandBuffer]
  /\ lastStatus' = "none"
  /\ resizedAtSubmit' = FALSE
  /\ builtInCall' = 0
  /\ waitedInCall' = FALSE
  /\ IF renderPassAsserts(commandBuffer)
     THEN \* vkCmdEndRenderPass
          /\ renderPass' = "closed"
          /\ pc' = "idle"
          /\ lastResult' = "ok"
     ELSE /\ pc' = "aborted"
          /\ lastResult' = "abort"
          /\ UNCHANGED renderPass
  /\ UNCHANGED <<rcVars, rendererVars, windowVars, inFlightFences, gpuPending,
                 imagesHeld, recording, frameOpen, completed, returnedIn>>
  /\ UNCHANGED sceneVars

\* ---------------------------------------------------------------------------

Next ==
  \/ Construct
  \/ ConstructFinish
  \/ recreateSwapChainWait
  \/ recreateSwapChainThrows
  \/ beginFrame
  \/ beginFrameFinish
  \/ \E cb \in Handles : beginSwapChainRenderPass(cb)
  \/ \E cb \in Handles : endSwapChainRenderPass(cb)
  \/ endFrame
  \/ endFrameFinish
  \/ glfwPollEvents
  \/ \E s \in Slots : GpuComplete(s)

Spec == Init /\ [][Next]_vars

\* a step that ends a rebuild: the wait for the device has returned and the
\* caller goes on (or the format check throws)
RebuildFinish ==
  \/ ConstructFinish
  \/ beginFrameFinish
  \/ endFrameFinish
  \/ recreateSwapChainThrows

\* The renderer's thread keeps running and the GPU finishes what was
\* submitted to it.  Nothing makes the window system deliver an event, so
\* the event wait of the rebuild loop has no fairness condition.
LiveSpec ==
  /\ Init
  /\ [][Next]_vars
  /\ WF_vars(RebuildFinish)
  /\ \A s \in Slots : WF_vars(GpuComplete(s))

\* ---------------------------------------------------------------------------
\* The scene: LveGameObject, FirstApp::loadGameObjects, render dispatch
\* ---------------------------------------------------------------------------

NullModel == 0
\* a geometry is told apart by its vertex count
Models == 1..MaxVertices
\* id_t is an unsigned integer type: arithmetic on it is modulo 2^width
IdModulus == 2 ^ IdWidth

rendererSide == <<pc, rcVars, rendererVars, windowVars, gpuVars, histVars>>

\* static id_t currentId = 0; return LveGameObject{currentId++};
createGameObject ==
  /\ currentId' = (currentId + 1) % IdModulus
  /\ created' = Append(created, currentId)

\* FirstApp::run creates the viewer object, which is not put into the scene
createViewerObject ==
  /\ Len(created) < MaxObjects
  /\ createGameObject
  /\ UNCHANGED <<gameObjects, drawCalls, rendererSide>>

\* FirstApp::loadGameObjects: create, attach the geometry (or none), and move
\* the object into the collection; the moved object keeps its id
loadGameObjects(model) ==
  /\ Len(created) < MaxObjects
  /\ createGameObject
  /\ gameObjects' = Append(gameObjects, [id |-> created'[Len(created')], model |-> model])
  /\ UNCHANGED <<drawCalls, rendererSide>>

RECURSIVE renderFromAll(_, _)
\* variant: every object is drawn, with or without geometry
renderFromAll(objs, i) ==
  IF i > Len(objs)
  THEN <<>>
  ELSE <<[index |-> i, id |-> objs[i].id, vertexCount |-> objs[i].model]>>
         \o renderFromAll(objs, i + 1)

RECURSIVE renderFrom(_, _)
\* the dispatch loop from object i on: an object without geometry is skipped,
\* one with geometry is bound and drawn with its vertex count
renderFrom(objs, i) ==
  IF i > Len(objs)
  THEN <<>>
  ELSE IF objs[i].model = NullModel
       THEN renderFrom(objs, i + 1)
       ELSE <<[index |-> i, id |-> objs[i].id, vertexCount |-> objs[i].model]>>
              \o renderFrom(objs, i + 1)

\* SimpleRenderSystem::renderGameObjects over the collection
renderGameObjects ==
  /\ drawCalls' = renderFrom(gameObjects, 1)
  /\ UNCHANGED <<currentId, created, gameObjects, rendererSide>>

SceneNext ==
  \/ createViewerObject
  \/ \E model \in Models \cup {NullModel} : loadGameObjects(model)
  \/ renderGameObjects

\* the scene is built and dispatched independently of the window: one surface
\* extent is enough
SceneInit == Init /\ windowExtent = <<MaxDim, MaxDim>>

SceneSpec == SceneInit /\ [][SceneNext]_vars

\* ---------------------------------------------------------------------------
\* Properties
\* ---------------------------------------------------------------------------

RebuildStatuses == {"VK_ERROR_OUT_OF_DATE_KHR", "VK_SUBOPTIMAL_KHR"}
InRebuild == pc \in {"rc_loop", "rc_idle"}
RenderPassOps == {"beginSwapChainRenderPass", "endSwapChainRenderPass"}
\* the handle of the slot the frames completed so far lead to
SlotHandle == (completed % MAX_FRAMES_IN_FLIGHT) + 1

\* C1: beginSwapChainRenderPass is accepted only if the latest beginFrame
\* returned a command buffer and no endFrame call came after it; in every
\* other situation the call aborts.
C1_RenderPassOnlyInOpenFrame ==
  lastCall.op = "beginSwapChainRenderPass" =>
    /\ lastResult = "ok" => frameOpen
    /\ ~frameOpen => lastResult = "abort"

\* C1 witness: a render pass accepted in a frame after the first one.
C1_Witness ==
  /\ lastCall.op = "beginSwapChainRenderPass"
  /\ lastResult = "ok"
  /\ completed >= 1

\* C2: currentFrameIndex starts at 0, stays in 0..F-1, equals the number of
\* completed frames mod F (so it is back at 0 after every F of them), and
\* changes only in a step in which endFrame completes, to the next index
\* mod F, whatever rebuilds take place.
C2_FrameIndexCycles ==
  /\ [](/\ currentFrameIndex \in 0 .. (MAX_FRAMES_IN_FLIGHT - 1)
        /\ currentFrameIndex = completed % MAX_FRAMES_IN_FLIGHT)
  /\ [][currentFrameIndex' # currentFrameIndex =>
          /\ lastCall'.op = "endFrame"
          /\ lastResult' = "ok"
          /\ completed' = completed + 1
          /\ currentFrameIndex' = (currentFrameIndex + 1) % MAX_FRAMES_IN_FLIGHT]_vars

\* C2 witness: the index is back at 0 after F completed frames, one of which
\* ended with a rebuild.
C2_Witness ==
  /\ completed = MAX_FRAMES_IN_FLIGHT
  /\ currentFrameIndex = 0
  /\ lastCall.op = "endFrame"
  /\ lastResult = "ok"
  /\ builtInCall = 1

\* C3: when submit reports out-of-date or suboptimal, endFrame rebuilds and
\* the frame completes: no error is raised, currentFrameIndex advances by one
\* mod F and the frame is no longer in progress.
C3_SubmitRebuildCompletesFrame ==
  [][(endFrameFinish /\ rcResult \in RebuildStatuses) =>
       /\ lastResult' = "ok"
       /\ pc' = "idle"
       /\ ~isFrameStarted'
       /\ currentFrameIndex' = (currentFrameIndex + 1) % MAX_FRAMES_IN_FLIGHT]_vars

\* C3 failing case: endFrame threw "failed to submit command buffers!" after
\* it had rebuilt the chain for a suboptimal or out-of-date submit.
C3_FailingCase ==
  /\ lastCall.op = "endFrame"
  /\ lastStatus \in RebuildStatuses
  /\ builtInCall = 1
  /\ lastResult = "throw_submit"
  /\ isFrameStarted

\* C4 (as stated): when acquire reports out of date, beginFrame rebuilds the
\* chain exactly once and returns "no frame"; no recording is begun, no frame
\* is in progress and currentFrameIndex is unchanged.
C4_OutOfDateReturnsNoFrame ==
  (lastCall.op = "beginFrame" /\ lastStatus = "VK_ERROR_OUT_OF_DATE_KHR" /\ ~InRebuild) =>
    /\ lastResult = "null"
    /\ builtInCall = 1
    /\ ~isFrameStarted
    /\ ~recording[currentFrameIndex]
    /\ currentFrameIndex = completed % MAX_FRAMES_IN_FLIGHT

\* C4 (amended): when acquire reports out of date, beginFrame enters the
\* rebuild without touching the frame state, constructs exactly one chain, and
\* then returns "no frame" if the new chain's formats equal the predecessor's
\* and raises the format error if they differ; in both cases no recording is
\* begun, no image is held, no frame is in progress and currentFrameIndex is
\* unchanged.
C4_OutOfDateRebuildsOnce ==
  /\ [][(beginFrame /\ lastStatus' = "VK_ERROR_OUT_OF_DATE_KHR") =>
          /\ ~isFrameStarted
          /\ pc' \in {"rc_loop", "rc_idle"}
          /\ builtInCall' = 0
          /\ UNCHANGED <<isFrameStarted, currentFrameIndex, recording,
                         lveSwapChain, imagesHeld>>]_vars
  /\ [][(pc = "rc_idle" /\ rcCaller = "beginFrame" /\ pc' # "rc_idle") =>
          /\ builtInCall' = 1
          /\ ~isFrameStarted'
          /\ currentFrameIndex' = currentFrameIndex
          /\ \A s \in Slots : ~recording'[s]
          /\ imagesHeld' = 0
          /\ IF lveSwapChain'.format = lveSwapChain.format
             THEN lastResult' = "null" /\ pc' = "idle"
             ELSE lastResult' = "throw_format" /\ pc' = "thrown"]_vars
  /\ []((lastCall.op = "beginFrame" /\ lastStatus = "VK_ERROR_OUT_OF_DATE_KHR"
           /\ ~InRebuild) =>
          /\ builtInCall = 1
          /\ lastResult \in {"null", "throw_format"}
          /\ ~isFrameStarted
          /\ currentFrameIndex = completed % MAX_FRAMES_IN_FLIGHT)

\* C4 witness: beginFrame returned "no frame" after one rebuild, in a later
\* frame than the first.
C4_Witness ==
  /\ lastCall.op = "beginFrame"
  /\ lastStatus = "VK_ERROR_OUT_OF_DATE_KHR"
  /\ lastResult = "null"
  /\ builtInCall = 1
  /\ completed >= 1

\* C5: a slot's command buffer is not in recording while a submission of that
\* slot is outstanding on the GPU; a slot has at most one outstanding
\* submission, so at most F are outstanding in all.
C5_NoRecordingWhilePending ==
  /\ \A s \in Slots : recording[s] => gpuPending[s] = 0
  /\ \A s \in Slots : gpuPending[s] <= 1
  /\ Cardinality({s \in Slots : gpuPending[s] > 0}) <= MAX_FRAMES_IN_FLIGHT

\* C5 witness: a slot is recording again after its earlier use, while the
\* work of another slot is still outstanding.
C5_Witness ==
  /\ completed >= MAX_FRAMES_IN_FLIGHT
  /\ \E s, u \in Slots :
       /\ s # u
       /\ recording[s]
       /\ gpuPending[u] = 1

\* C6: a chain is never constructed for an extent with zero width or height:
\* the rebuild passes the wait loop only with a non-zero extent read from the
\* surface, and constructs the chain with that extent.
C6_NoChainForZeroExtent ==
  /\ [](lveSwapChain # NullChain =>
          lveSwapChain.extent[1] > 0 /\ lveSwapChain.extent[2] > 0)
  /\ [](pc = "rc_idle" => rcExtent[1] > 0 /\ rcExtent[2] > 0)
  /\ [][builtInCall' = builtInCall + 1 =>
          /\ pc = "rc_idle"
          /\ rcExtent[1] > 0 /\ rcExtent[2] > 0
          /\ lveSwapChain'.extent = rcExtent]_vars

\* C6 witness: a rebuild that went through the zero-extent loop has
\* constructed its chain.
C6_Witness ==
  /\ lastCall.op \in {"beginFrame", "endFrame"}
  /\ waitedInCall
  /\ builtInCall = 1
  /\ lveSwapChain.extent[1] > 0 /\ lveSwapChain.extent[2] > 0

\* C7 (as stated): when submit succeeds, endFrame with a pending resize
\* notification rebuilds exactly once, advances currentFrameIndex and ends the
\* frame; without a notification it does not rebuild.
C7_ResizeRebuildCompletesFrame ==
  (lastCall.op = "endFrame" /\ lastStatus = "VK_SUCCESS" /\ ~InRebuild) =>
    IF resizedAtSubmit
    THEN /\ builtInCall = 1
         /\ lastResult = "ok"
         /\ ~isFrameStarted
    ELSE builtInCall = 0

\* C7 (amended): when submit succeeds, endFrame with a pending resize
\* notification clears it and rebuilds exactly once; it then advances
\* currentFrameIndex and ends the frame if the new chain's formats equal the
\* predecessor's, and raises the format error, leaving the index and the frame
\* flag as they were, if they differ.  Without a notification it does not
\* rebuild and completes the frame.
C7_ResizeTriggersRebuild ==
  /\ [][(endFrame /\ lastStatus' = "VK_SUCCESS") =>
          IF framebufferResized
          THEN /\ ~framebufferResized'
               /\ pc' \in {"rc_loop", "rc_idle"}
               /\ rcResult' = "VK_SUCCESS"
          ELSE /\ pc' = "idle"
               /\ lastResult' = "ok"
               /\ builtInCall' = 0
               /\ lveSwapChain' = lveSwapChain
               /\ ~isFrameStarted'
               /\ currentFrameIndex' = (currentFrameIndex + 1) % MAX_FRAMES_IN_FLIGHT]_vars
  /\ [][(pc = "rc_idle" /\ rcCaller = "endFrame" /\ rcResult = "VK_SUCCESS"
           /\ pc' # "rc_idle") =>
          /\ builtInCall' = 1
          /\ IF lveSwapChain'.format = lveSwapChain.format
             THEN /\ lastResult' = "ok"
                  /\ pc' = "idle"
                  /\ ~isFrameStarted'
                  /\ currentFrameIndex' = (currentFrameIndex + 1) % MAX_FRAMES_IN_FLIGHT
             ELSE /\ lastResult' = "throw_format"
                  /\ pc' = "thrown"
                  /\ UNCHANGED <<isFrameStarted, currentFrameIndex>>]_vars
  /\ []((lastCall.op = "endFrame" /\ lastStatus = "VK_SUCCESS" /\ ~InRebuild) =>
          builtInCall = (IF resizedAtSubmit THEN 1 ELSE 0))

\* C7 witness: endFrame with a successful submit and a pending notification
\* has rebuilt once and completed the frame.
C7_Witness ==
  /\ lastCall.op = "endFrame"
  /\ lastStatus = "VK_SUCCESS"
  /\ resizedAtSubmit
  /\ builtInCall = 1
  /\ lastResult = "ok"
  /\ ~isFrameStarted

\* C8: within a frame the render-pass calls are accepted only in state order:
\* beginSwapChainRenderPass only when the frame has no render pass yet,
\* endSwapChainRenderPass only when a render pass is open.
C8_RenderPassCallsInStateOrder ==
  [][/\ ((\E cb \in Handles : beginSwapChainRenderPass(cb)) /\ lastResult' = "ok") =>
          (frameOpen /\ renderPass = "none")
     /\ ((\E cb \in Handles : endSwapChainRenderPass(cb)) /\ lastResult' = "ok") =>
          (frameOpen /\ renderPass = "open")]_vars

\* C9: endFrame is accepted (gets as far as submitting) only when a frame is
\* in progress and no render pass is open; in Idle, or with a render pass
\* still open, it is rejected before it submits anything.
C9_EndFrameInStateOrder ==
  [][endFrame =>
       /\ lastResult' \notin {"abort", "throw_record"} =>
            (frameOpen /\ renderPass # "open")
       /\ (~frameOpen \/ renderPass = "open") =>
            /\ lastResult' \in {"abort", "throw_record"}
            /\ gpuPending' = gpuPending]_vars

\* C10 (as stated): the render-pass calls reject every command buffer that is
\* not the one the beginFrame of the frame in progress returned, and reject
\* every handle that the beginFrame of an earlier frame returned.
C10_EarlierHandlesRejected ==
  lastCall.op \in RenderPassOps =>
    /\ ~(frameOpen /\ completed \in returnedIn[lastCall.cb]) => lastResult = "abort"
    /\ (\E k \in returnedIn[lastCall.cb] : k < completed) => lastResult = "abort"

\* C10 (amended): the render-pass calls accept a command buffer exactly when a
\* frame is in progress and the buffer is the one its beginFrame returned (the
\* current slot's buffer), and abort otherwise; a handle kept from an earlier
\* frame is rejected exactly when the number of frames completed since is not
\* a multiple of F; kept from F, 2F, ... frames ago it is the current slot's
\* buffer again and is accepted.
C10_OnlyCurrentSlotBufferAccepted ==
  lastCall.op \in RenderPassOps =>
    /\ lastResult \in {"ok", "abort"}
    /\ lastResult = "ok" <=>
         (frameOpen /\ lastCall.cb = SlotHandle /\ completed \in returnedIn[lastCall.cb])
    /\ \A k \in returnedIn[lastCall.cb] :
         k < completed =>
           (lastResult = "abort" <=>
              (~frameOpen \/ (completed - k) % MAX_FRAMES_IN_FLIGHT # 0))

\* C10 witness: a render-pass call accepted a handle that an earlier frame's
\* beginFrame had returned.
C10_Witness ==
  /\ lastCall.op \in RenderPassOps
  /\ lastResult = "ok"
  /\ \E k \in returnedIn[lastCall.cb] : k < completed

\* C11: an empty frame is legal and nothing is allocated after construction:
\* endFrame directly after a beginFrame that returned a buffer, with no render
\* pass recorded, submits and completes when the statuses are successes (also
\* when it rebuilds for a pending resize and the rebuild succeeds); the
\* command buffers are F distinct handles from construction on and never
\* change, and the per-slot fences stay F.
C11_EmptyFrameLegalSlotsFixed ==
  /\ [](commandBuffers # <<>> =>
          /\ Len(commandBuffers) = MAX_FRAMES_IN_FLIGHT
          /\ Cardinality({commandBuffers[i] : i \in 1 .. Len(commandBuffers)})
               = MAX_FRAMES_IN_FLIGHT)
  /\ [](/\ Cardinality(DOMAIN inFlightFences) = MAX_FRAMES_IN_FLIGHT
        /\ Cardinality(DOMAIN gpuPending) = MAX_FRAMES_IN_FLIGHT)
  /\ [][commandBuffers # <<>> => commandBuffers' = commandBuffers]_vars
  /\ [][(endFrame /\ frameOpen /\ renderPass = "none" /\ lastStatus' = "VK_SUCCESS") =>
          /\ gpuPending'[currentFrameIndex] = gpuPending[currentFrameIndex] + 1
          /\ IF framebufferResized
             THEN lastResult' = "running"
             ELSE lastResult' = "ok" /\ ~isFrameStarted']_vars
  /\ [][(endFrameFinish /\ renderPass = "none" /\ rcResult = "VK_SUCCESS") =>
          (lastResult' = "ok" /\ ~isFrameStarted')]_vars

\* C11 witness: an empty frame has completed after the slots were all used
\* once, its endFrame having rebuilt the chain.
C11_Witness ==
  /\ lastCall.op = "endFrame"
  /\ lastResult = "ok"
  /\ renderPass = "none"
  /\ builtInCall = 1
  /\ completed > MAX_FRAMES_IN_FLIGHT
  /\ Len(commandBuffers) = MAX_FRAMES_IN_FLIGHT

\* C12: at most one image is acquired and not yet submitted: exactly one
\* while a frame is in progress (from the beginFrame that returned a buffer
\* to the endFrame that submits), none otherwise, and beginFrame acquires only
\* when none is outstanding.
C12_OneImageOutstanding ==
  /\ [](imagesHeld \in {0, 1})
  /\ [](pc = "idle" => imagesHeld = (IF frameOpen THEN 1 ELSE 0))
  /\ [](InRebuild => imagesHeld = 0)
  /\ [][imagesHeld' > imagesHeld =>
          /\ imagesHeld = 0
          /\ lastCall'.op = "beginFrame"
          /\ lastStatus' \in {"VK_SUCCESS", "VK_SUBOPTIMAL_KHR"}]_vars
  /\ [][imagesHeld' < imagesHeld =>
          /\ lastCall'.op = "endFrame"
          /\ lastStatus' \in SubmitResults]_vars

\* C12 witness: in a later frame than the first, one image is held while the
\* frame's render pass is being recorded.
C12_Witness ==
  /\ imagesHeld = 1
  /\ frameOpen
  /\ completed >= 1
  /\ lastCall.op = "beginSwapChainRenderPass"
  /\ lastResult = "ok"

\* C13: every chain construction that has a predecessor compares formats: if
\* the new chain's format differs from the predecessor's the rebuild raises
\* the format error and the run ends there, if it is equal the rebuild returns
\* to its caller; the first construction, with no predecessor, never raises it.
C13_FormatCheckedOnEveryRebuild ==
  /\ [][builtInCall' = builtInCall + 1 =>
          IF lveSwapChain = NullChain
          THEN /\ rcCaller = "ctor"
               /\ lastResult' # "throw_format"
          ELSE IF lveSwapChain'.format # lveSwapChain.format
               THEN lastResult' = "throw_format" /\ pc' = "thrown"
               ELSE /\ lastResult' \in {"null", "ok", "throw_submit"}
                    /\ lastResult' # "throw_submit" => pc' = "idle"]_vars
  /\ [](lastResult = "throw_format" => pc = "thrown")

\* C13 witness: a rebuild with a predecessor has raised the format error.
C13_Witness ==
  /\ lastResult = "throw_format"
  /\ builtInCall = 1
  /\ lastCall.op = "endFrame"
  /\ pc = "thrown"

\* C14 (as stated): with acquire status success or suboptimal, beginFrame
\* starts the frame (recording on the current slot's buffer, frame in
\* progress) without rebuilding; with a status other than success, suboptimal
\* and out-of-date it fails, does not rebuild, and leaves no frame in progress
\* and currentFrameIndex unchanged.
C14_AcquireStatusStartsFrame ==
  /\ (lastCall.op = "beginFrame" /\ lastStatus \in {"VK_SUCCESS", "VK_SUBOPTIMAL_KHR"}) =>
       /\ lastResult = "ok"
       /\ isFrameStarted
       /\ recording[currentFrameIndex]
       /\ builtInCall = 0
  /\ (lastCall.op = "beginFrame" /\ lastStatus = "VK_ERROR_OTHER") =>
       /\ lastResult = "throw_acquire"
       /\ ~isFrameStarted
       /\ builtInCall = 0
       /\ currentFrameIndex = completed % MAX_FRAMES_IN_FLIGHT

\* C14 (amended): with acquire status success or suboptimal, beginFrame does
\* not rebuild, sets the frame in progress and begins recording on the current
\* slot's buffer, which it returns, unless vkBeginCommandBuffer fails: then it
\* raises "failed to begin recording command buffer!" with the frame flag
\* already set and nothing recording.  With any status other than success,
\* suboptimal and out-of-date it raises the acquire error, does not rebuild,
\* and leaves no frame in progress and currentFrameIndex unchanged.
C14_AcquireStatusHandling ==
  /\ [][(beginFrame /\ lastStatus' \in {"VK_SUCCESS", "VK_SUBOPTIMAL_KHR"}) =>
          /\ builtInCall' = 0
          /\ lveSwapChain' = lveSwapChain
          /\ currentFrameIndex' = currentFrameIndex
          /\ isFrameStarted'
          /\ \/ /\ lastResult' = "ok"
                /\ pc' = "idle"
                /\ recording'[currentFrameIndex]
                /\ lastCall'.cb = SlotHandle
             \/ /\ lastResult' = "throw_begin"
                /\ pc' = "thrown"
                /\ recording' = recording]_vars
  /\ [][(beginFrame /\ lastStatus' = "VK_ERROR_OTHER") =>
          /\ lastResult' = "throw_acquire"
          /\ pc' = "thrown"
          /\ builtInCall' = 0
          /\ lveSwapChain' = lveSwapChain
          /\ ~isFrameStarted'
          /\ currentFrameIndex' = currentFrameIndex
          /\ recording' = recording]_vars

\* C14 witness: a frame after the first has started on a suboptimal acquire.
C14_Witness ==
  /\ lastCall.op = "beginFrame"
  /\ lastStatus = "VK_SUBOPTIMAL_KHR"
  /\ lastResult = "ok"
  /\ recording[currentFrameIndex]
  /\ completed >= 1

\* C18: in every rebuild the wait for the device comes after the zero-extent
\* loop and before the construction: a chain is constructed only from the
\* point after the loop and only when no submission is outstanding on any
\* slot, and the renderer's chain is then the new one.
C18_DeviceIdleBeforeConstruction ==
  /\ [][builtInCall' = builtInCall + 1 =>
          /\ pc = "rc_idle"
          /\ \A s \in Slots : gpuPending[s] = 0
          /\ lveSwapChain' # NullChain
          /\ lveSwapChain'.extent = rcExtent]_vars
  /\ [][lveSwapChain' # lveSwapChain => builtInCall' = builtInCall + 1]_vars
  /\ [](pc = "rc_loop" => builtInCall = 0)

\* C18 witness: an endFrame that submitted and then rebuilt has returned, and
\* nothing is outstanding.
C18_Witness ==
  /\ lastCall.op = "endFrame"
  /\ lastStatus \in SubmitResults
  /\ builtInCall = 1
  /\ lastResult = "ok"
  /\ completed >= 2
  /\ \A s \in Slots : gpuPending[s] = 0

\* C19: the extent the chain is constructed with is the surface's extent at
\* that moment: no window event changes the surface between the rebuild's
\* last read of the extent and the construction.
C19_ChainBuiltWithCurrentExtent ==
  [][builtInCall' = builtInCall + 1 =>
       /\ rcExtent = windowExtent
       /\ lveSwapChain'.extent = windowExtent]_vars

\* C15: a requested rebuild runs to completion before the next frame begins:
\* once the surface reports a non-zero extent (and the GPU drains) the
\* rebuild eventually returns to its caller, and a frame is started only
\* outside a rebuild, on a constructed chain.
C15_RebuildRunsToCompletion ==
  /\ (InRebuild /\ ~ZeroExtent(windowExtent)) ~> ~InRebuild
  /\ [][~isFrameStarted /\ isFrameStarted' =>
          ~InRebuild /\ lveSwapChain # NullChain]_vars

\* C20: no resize notification is lost.  The flag becomes set only by an
\* event of the loop's polling or of the event wait inside a rebuild; once
\* set it stays set through every step, beginFrame's rebuild included, until
\* an endFrame reaches its rebuild decision; every endFrame that reaches the
\* decision with the flag set, whatever the submit status, clears it and
\* rebuilds in the same call, and when that call returns a chain has been
\* constructed in it.  So while frames keep being begun and ended, the next
\* endFrame after the notification rebuilds and clears the flag.
C20_ResizeNotificationNotLost ==
  /\ [][(~framebufferResized /\ framebufferResized') =>
          (glfwPollEvents \/ recreateSwapChainWait)]_vars
  /\ [][(framebufferResized /\ ~framebufferResized') =>
          /\ endFrame
          /\ lastStatus' \in SubmitResults
          /\ pc' \in {"rc_loop", "rc_idle"}
          /\ rcCaller' = "endFrame"]_vars
  /\ [][(endFrame /\ lastStatus' \in SubmitResults /\ framebufferResized) =>
          /\ ~framebufferResized'
          /\ pc' \in {"rc_loop", "rc_idle"}
          /\ rcCaller' = "endFrame"]_vars
  /\ [][(framebufferResized /\ (beginFrame \/ beginFrameFinish
                                 \/ rcCaller = "beginFrame")) =>
          framebufferResized']_vars
  /\ []((lastCall.op = "endFrame" /\ resizedAtSubmit /\ pc = "idle") =>
          builtInCall = 1)

\* C20 witness: an endFrame cleared the flag and rebuilt, a resize arrived
\* during the event wait of that rebuild, and the call has returned with the
\* new notification still pending.
C20_Witness ==
  /\ lastCall.op = "endFrame"
  /\ resizedAtSubmit
  /\ waitedInCall
  /\ builtInCall = 1
  /\ lastResult = "ok"
  /\ pc = "idle"
  /\ framebufferResized

\* C16: ids come from a process-wide counter starting at 0: every
\* createGameObject call returns an id strictly greater than all ids returned
\* before (so no two objects share an id), and the id of an object in the
\* collection never changes, the move into the collection included.
C16_IdsIncreaseAndNeverChange ==
  /\ [](created # <<>> => created[1] = 0)
  /\ [](\A i, j \in 1..Len(created) : i < j => created[i] < created[j])
  /\ [][/\ \A i \in 1..Len(gameObjects) : gameObjects'[i].id = gameObjects[i].id
        /\ Len(gameObjects') > Len(gameObjects) =>
             gameObjects'[Len(gameObjects')].id = created'[Len(created')]]_vars

\* the positions of the objects with geometry
WithGeometry(objs) == {i \in 1..Len(objs) : objs[i].model # NullModel}

\* C17: a render dispatch issues exactly one draw call for each object with
\* geometry, with that geometry's vertex count, none for an object without
\* geometry, and issues them in the objects' insertion order.
C17_OneDrawPerObjectWithGeometry ==
  [][renderGameObjects =>
       /\ {drawCalls'[k].index : k \in 1..Len(drawCalls')} = WithGeometry(gameObjects)
       /\ Len(drawCalls') = Cardinality(WithGeometry(gameObjects))
       /\ \A k \in 1..Len(drawCalls') :
            /\ drawCalls'[k].vertexCount = gameObjects[drawCalls'[k].index].model
            /\ drawCalls'[k].id = gameObjects[drawCalls'[k].index].id
       /\ \A k, l \in 1..Len(drawCalls') :
            k < l => drawCalls'[k].index < drawCalls'[l].index]_vars

\* C17 witness: a collection of three objects, the middle one without
\* geometry, has been dispatched: two draw calls, for the first and the third.
C17_Witness ==
  /\ Len(gameObjects) = 3
  /\ gameObjects[1].model = 2
  /\ gameObjects[2].model = NullModel
  /\ gameObjects[3].model = 1
  /\ Len(drawCalls) = 2
  /\ drawCalls[1].index = 1 /\ drawCalls[1].vertexCount = 2
  /\ drawCalls[2].index = 3 /\ drawCalls[2].vertexCount = 1

TypeOK ==
  /\ pc \in {"start", "idle", "rc_loop", "rc_idle", "aborted", "thrown"}
  /\ lastResult \in {"none", "running", "ok", "null", "abort"} \cup ThrowResults
  /\ isFrameStarted \in BOOLEAN
  /\ currentFrameIndex \in Slots
  /\ windowExtent \in Extents
  /\ framebufferResized \in BOOLEAN
  /\ imagesHeld \in 0 .. 1
  /\ completed \in 0 .. MaxFrames
====
